---- MODULE Spec2Model ----
(***************************************************************************)
(* Model of src/rgb_grid_screensaver.py (class RGBGridScreensaver, main).  *)
(*                                                                         *)
(* Three specifications share the variables and the operators:             *)
(*   Spec     the object after construction, driven through its methods    *)
(*            update_grid (advance) and update_grid_size (resize), with    *)
(*            the audio sink finishing tones on its own;                   *)
(*   SpecRun  main(): the run loop of run() driven by the clock, the       *)
(*            event queue and the faults a frame can raise;                *)
(*   SpecPure the pure methods (update_grid_size's sizing, the pitch       *)
(*            mapping, generate_tone) called once on arguments drawn in    *)
(*            its initial states.                                          *)
(*                                                                         *)
(* Python lists are 0-based, TLA+ sequences 1-based: grid_data[i] of the   *)
(* source is grid_data[i + 1] here; grid_index keeps the source's value.   *)
(* The presentation state (cell_size, previous_cell_colors, fonts, the     *)
(* pixels) is written by the code and never read back by the operations    *)
(* modelled here; it is left out.                                          *)
(***************************************************************************)
EXTENDS Integers, Sequences, FiniteSets, TLC

VARIABLES
    screen_width,    \* self.screen_width
    screen_height,   \* self.screen_height
    grid_cols,       \* self.grid_cols
    grid_rows,       \* self.grid_rows
    grid_data,       \* self.grid_data: sequence of cells (None or <<r, g, b>>)
    grid_index,      \* self.grid_index: the write cursor
    current_sound,   \* self.current_sound: None or the last Sound started
    playing,         \* audio sink: the Sounds that are audible now
    rng,             \* hidden state of the random module's generator
    now,             \* pygame.time.get_ticks(): the clock, in ms
    last_update,     \* self.last_update
    running,         \* run(): the local variable running
    pc,              \* main(): "loop" | "done" (run returned) | "crashed"
    quit_called,     \* pygame.quit() has been executed by run()
    history,         \* ghost: the colours written by update_grid, in order
    n_advances,      \* ghost: number of update_grid calls since Init
    n_resizes,       \* ghost: number of update_grid_size calls after __init__
    iterations,      \* ghost: number of loop iterations started
    delivered,       \* ghost: the input events delivered to the loop so far
    late_frame,      \* ghost: some frame period was longer than the interval
    last_op,         \* ghost: what the last method call or loop iteration did
    advanced_at,     \* ghost: clock sample of the loop's last update_grid call
    probe            \* SpecPure: one call of a pure method and what it returned

vars == << screen_width, screen_height, grid_cols, grid_rows, grid_data,
           grid_index, current_sound, playing, rng, now, last_update, running,
           pc, quit_called, history, n_advances, n_resizes, iterations,
           delivered, late_frame, last_op, advanced_at, probe >>

-----------------------------------------------------------------------------
(* Bounds of the model *)

MaxAdvances == 6      \* update_grid calls explored after Init in Spec
MaxResizes == 2       \* update_grid_size calls after construction in Spec
FillGap == 2          \* Init: free cells left in a grid that starts filled
MaxSeed == 1          \* seeds 0..MaxSeed of the random generator
MaxTime == 1010       \* SpecRun: no iteration starts after this clock value
MaxEvents == 1        \* SpecRun: events returned by one pygame.event.get()
MaxPixelK == 15       \* SpecPure: display extents are -K..K times PixelStep
PixelStep == 20       \* SpecPure: pixels between two sampled extents
ChannelStep == 15     \* SpecPure: distance between sampled channel values
MaxDurationMs == 40   \* SpecPure: tone durations 0..MaxDurationMs ms

-----------------------------------------------------------------------------
(* Program constants *)

update_interval == 500   \* self.update_interval, 120 BPM
min_cell_size == 20
gap == 2
MinDim == 10             \* minimum grid_cols and grid_rows
SizeDivisor == 30        \* target cell size = min(width, height) / 30
ChannelMax == 255
BandSpan == 12           \* semitones per colour band
RedBase == 36
GreenBase == 48
BlueBase == 60
NoteMin == 36
NoteMax == 96
DefaultNote == 60
NoteCount == 3           \* the partial notes averaged by color_to_midi_note
VelocityMax == 127
FrameCap == 16           \* clock.tick(60) waits for 1000 // 60 ms per frame
DefaultDurationMs == 200 \* generate_tone: duration=0.2 (seconds)
DefaultSampleRate == 44100
FadePerSecond == 100     \* the fades last sample_rate * 0.01 frames
MsPerSecond == 1000

None == << >>            \* Python's None, for a cell and for current_sound

Min(a, b) == IF a <= b THEN a ELSE b
Max(a, b) == IF a >= b THEN a ELSE b

\* int(a / b) for b > 0: Python's int() truncates toward zero
TruncDiv(a, b) == IF a >= 0 THEN a \div b ELSE -((-a) \div b)

-----------------------------------------------------------------------------
(* Python floats: IEEE 754 doubles, 53 significant bits, round to nearest *)

\* The binary exponent of the double nearest to n / d (n, d > 0):
\* floor(log2(n / d))
Log2Floor(n, d) ==
    IF n >= d
    THEN CHOOSE e \in 0..30 : d * (2 ^ e) <= n /\ n < d * (2 ^ (e + 1))
    ELSE -(CHOOSE k \in 1..30 : d <= n * (2 ^ k) /\ n * (2 ^ (k - 1)) < d)

\* (2 ^ k) % n, by squaring
RECURSIVE Pow2Mod(_, _)
Pow2Mod(k, n) ==
    IF k = 0
    THEN 1 % n
    ELSE LET half == Pow2Mod(k \div 2, n)
         IN  (half * half * (IF k % 2 = 1 THEN 2 ELSE 1)) % n

\* x is a power of two: the doubles just below it are spaced twice as closely
IsPow2(x) == \E e \in 0..30 : x = 2 ^ e

\* The double just below the whole number q is 2^(e - 52) away, e its binary
\* exponent (2^(e - 53) when q is a power of two). A value q * (1 - a * 2^s / d)
\* with 0 < a * 2^s / d << 1 rounds to that neighbour, and int() then gives
\* q - 1, exactly when it lies below the middle of the two:
\*     q * a * 2^(s + 52) / d > 2^(e - 1)      (2^(e - 2) for a power of two)
\* s + 52 is the binary exponent es of the operand that carries the error.
RoundsBelow(q, a, es, d) ==
    LET e == Log2Floor(q, 1)
        k == IF IsPow2(q) THEN 4 ELSE 2
        sh == e - es
    IN  IF sh >= 0
        THEN k * q * a > d * (2 ^ sh)
        ELSE k * q * a * (2 ^ (-sh)) > d


-----------------------------------------------------------------------------
(* PitchMapper: rgb_to_hex, color_to_midi_note *)

HexDigits == << "0", "1", "2", "3", "4", "5", "6", "7",
                "8", "9", "a", "b", "c", "d", "e", "f" >>

\* f"{c:02x}": two lower-case hexadecimal digits of a channel in 0..255
Hex2(c) == << HexDigits[(c \div 16) + 1], HexDigits[(c % 16) + 1] >>

\* rgb_to_hex(r, g, b): the string "#rrggbb" as a sequence of characters
rgb_to_hex(r, g, b) == << "#" >> \o Hex2(r) \o Hex2(g) \o Hex2(b)

\* str.lower() on one character of a colour string
LowerChar(ch) ==
    CASE ch = "A" -> "a" [] ch = "B" -> "b" [] ch = "C" -> "c"
      [] ch = "D" -> "d" [] ch = "E" -> "e" [] ch = "F" -> "f"
      [] OTHER -> ch

Lower(str) == [i \in 1..Len(str) |-> LowerChar(str[i])]

\* Variant of color_to_midi_map: white is given the note 108 (C8)
color_to_midi_map_HighWhite ==
    { << << "#", "0", "0", "0", "0", "0", "0" >>, 36 >>,
      << << "#", "0", "a", "0", "a", "0", "a" >>, 38 >>,
      << << "#", "1", "a", "1", "a", "1", "a" >>, 40 >>,
      << << "#", "f", "f", "f", "f", "f", "f" >>, 108 >> }

\* self.color_to_midi_map: the four static colours and their notes
color_to_midi_map ==
    { << << "#", "0", "0", "0", "0", "0", "0" >>, 36 >>,
      << << "#", "0", "a", "0", "a", "0", "a" >>, 38 >>,
      << << "#", "1", "a", "1", "a", "1", "a" >>, 40 >>,
      << << "#", "f", "f", "f", "f", "f", "f" >>, 60 >> }

MapKeys == { e[1] : e \in color_to_midi_map }

MapGet(key) == (CHOOSE e \in color_to_midi_map : e[1] = key)[2]

\* 36 + int((c / 255) * 12) and its two siblings: int((c / 255) * 12) equals
\* (12 * c) \div 255 for every c in 0..255 under IEEE double arithmetic
ChannelNote(base, c) == base + ((c * BandSpan) \div ChannelMax)

\* Variant of NoteMean: the green note is left out of the mean
NoteMeanTwo(rgb) ==
    [total |-> ChannelNote(RedBase, rgb[1]) + ChannelNote(BlueBase, rgb[3]),
     count |-> 2]

\* (red_note + green_note + blue_note) / 3, the mean line 92 rounds: the sum
\* of the three partial notes and the number it is divided by
NoteMean(rgb) ==
    [total |-> ChannelNote(RedBase, rgb[1]) + ChannelNote(GreenBase, rgb[2])
                 + ChannelNote(BlueBase, rgb[3]),
     count |-> NoteCount]

\* round(total / count) for total >= 0: Python 3 rounds to the nearest
\* integer and takes the even neighbour when total / count lies half-way
\* between two integers
round(total, count) ==
    LET q == total \div count
        rest == total % count
    IN  IF 2 * rest < count
        THEN q
        ELSE IF 2 * rest > count
             THEN q + 1
             ELSE IF q % 2 = 0 THEN q ELSE q + 1

\* avg_note = round((red_note + green_note + blue_note) / 3)
avg_note(rgb) == round(NoteMean(rgb).total, NoteMean(rgb).count)

\* Variant of color_to_midi_note: the static colours are not looked up
color_to_midi_note_NoMap(hex_color, rgb) ==
    IF rgb # None
    THEN Max(NoteMin, Min(NoteMax, avg_note(rgb)))
    ELSE DefaultNote

\* color_to_midi_note(hex_color, rgb); None stands for an omitted argument
color_to_midi_note(hex_color, rgb) ==
    IF hex_color # None /\ Lower(hex_color) \in MapKeys
    THEN MapGet(Lower(hex_color))
    ELSE IF rgb # None
         THEN Max(NoteMin, Min(NoteMax, avg_note(rgb)))
         ELSE DefaultNote

\* max(1, int((r + g + b) / 3 / 255 * 127)): the velocity update_grid passes
\* to play_midi_note, which ignores it
Velocity(rgb) ==
    Max(1, ((rgb[1] + rgb[2] + rgb[3]) * VelocityMax) \div (3 * ChannelMax))

-----------------------------------------------------------------------------
(* The random source: generate_random_rgb *)

\* The channel values the model's generator produces
Channels == << 0, 255, 10, 26, 128 >>

\* The random module is a deterministic generator with a hidden state, seeded
\* once per process. The model keeps that shape with a small full-period
\* congruential generator; the seed is chosen nondeterministically in Init.
RngNext(s) == ((5 * s) + 1) % 8

\* random.randint(0, 255) on generator state s (after stepping it)
randint(s) == Channels[(s % Len(Channels)) + 1]

\* generate_random_rgb(): three successive draws; yields the colour and the
\* generator state left behind
generate_random_rgb(s) ==
    LET s1 == RngNext(s)
        s2 == RngNext(s1)
        s3 == RngNext(s2)
    IN  [rgb |-> << randint(s1), randint(s2), randint(s3) >>, rng |-> s3]

-----------------------------------------------------------------------------
(* Audio: play_midi_note *)

\* What the audio backend does with one tone: it is generated and started,
\* generate_tone raises, Sound.play raises, or the process is interrupted
\* (KeyboardInterrupt, a BaseException) while the tone is being generated.
ToneOutcomes == { "ok", "synth_error", "play_error" }
Interrupt == "interrupt"

\* A Sound object: its identity and the note whose frequency
\* (midi_note_to_frequency) it was generated at
Sound(id, note) == [id |-> id, note |-> note]

\* Variant of StopSound: the sound keeps playing
StopSoundNot(pl, snd) == pl

\* current_sound.stop(): the sink no longer plays that sound
StopSound(pl, snd) == pl \ { snd }

\* Variant of play_midi_note: no try/except around the tone
play_midi_note_NoCatch(cs, pl, note, id, outcome) ==
    LET pl1 == IF cs # None THEN StopSound(pl, cs) ELSE pl
        sound == Sound(id, note)
    IN  IF outcome = "ok"
        THEN [current_sound |-> sound, playing |-> pl1 \cup { sound },
              raised |-> FALSE]
        ELSE [current_sound |-> None, playing |-> pl1, raised |-> TRUE]

\* play_midi_note(note, velocity, duration) on (current_sound, playing);
\* id is the identity of the Sound that generate_tone would create.
\* raised: an exception leaves the method.
play_midi_note(cs, pl, note, id, outcome) ==
    LET pl1 == IF cs # None THEN StopSound(pl, cs) ELSE pl
        sound == Sound(id, note)
    IN  CASE outcome = "ok" ->
               [current_sound |-> sound, playing |-> pl1 \cup { sound },
                raised |-> FALSE]
          [] outcome = "synth_error" ->
               [current_sound |-> None, playing |-> pl1, raised |-> FALSE]
          [] outcome = "play_error" ->
               [current_sound |-> None, playing |-> pl1, raised |-> FALSE]
          [] OTHER ->
               [current_sound |-> None, playing |-> pl1, raised |-> TRUE]

-----------------------------------------------------------------------------
(* GridStore: update_grid_size, update_grid *)

\* target_cell_size + gap as a double, for m = min(width, height) > 600:
\* the error of (m / 30) + 2 against the exact (m + 60) / 30, in 30ths of the
\* last bit of m / 30. With e the binary exponent of m / 30, the division
\* leaves x = m * 2^(52 - e) = 30 * F + r: the mantissa is F, or F + 1 when
\* r > 15 (a tie cannot occur). Adding 2 is exact unless the sum reaches the
\* next power of two and the mantissa is odd; the tie then goes to the even
\* neighbour, one last bit of m / 30 down or up. F % 4 is read off x % 120.
TargetError(m) ==
    LET e == Log2Floor(m, SizeDivisor)
        x == ((m % (4 * SizeDivisor)) * Pow2Mod(52 - e, 4 * SizeDivisor))
                 % (4 * SizeDivisor)
        r == x % SizeDivisor
        up == 2 * r > SizeDivisor
        mant4 == ((x \div SizeDivisor) + (IF up THEN 1 ELSE 0)) % 4
        carried == m + (SizeDivisor * gap) >= SizeDivisor * (2 ^ (e + 1))
    IN  (IF up THEN SizeDivisor - r ELSE -r)
          + (IF carried /\ mant4 = 1 THEN -SizeDivisor
             ELSE IF carried /\ mant4 = 3 THEN SizeDivisor ELSE 0)

\* int((extent + gap) / (target_cell_size + gap)) for m = min(width, height).
\* Up to 600 the target is the integer 20 and the quotient of two integers is
\* rounded correctly, so int() gives the exact quotient truncated. Above 600
\* the target is the double m / 30: the quotient is 30 * (extent + gap) /
\* (m + 60) computed with the divisor off by TargetError(m). That matters
\* only when the exact quotient is a whole number q and the divisor is too
\* large: the double quotient can then be the double just below q, and int()
\* gives q - 1 (659 x 601: 29 columns, not 30).
FloatFit(extent, m) ==
    LET num == extent + gap
        den == m + (SizeDivisor * gap)
        q == TruncDiv(SizeDivisor * num, den)
    IN  IF m <= min_cell_size * SizeDivisor
        THEN TruncDiv(num, min_cell_size + gap)
        ELSE IF /\ num > 0
                /\ (SizeDivisor * num) % den = 0
                /\ TargetError(m) > 0
                /\ RoundsBelow(q, TargetError(m), Log2Floor(m, SizeDivisor), den)
             THEN q - 1
             ELSE q

\* Variant of FitCount: the count is not raised to the minimum of 10
FitCountNoMin(extent, width, height) == FloatFit(extent, Min(width, height))

\* The columns (or rows) that fit: int((extent + gap) / (target + gap)) with
\* target = max(min_cell_size, min(width, height) / 30), then max(10, .)
FitCount(extent, width, height) ==
    Max(MinDim, FloatFit(extent, Min(width, height)))

\* Variant of CopyOld: the copy stops one cell early
CopyOldShort(old_data, total_cells) ==
    LET min_cells == Min(Len(old_data), total_cells)
    IN  [i \in 1..total_cells |->
            IF Len(old_data) > 0 /\ i < min_cells THEN old_data[i] ELSE None]

\* The loop "for i in range(min_cells): grid_data[i] = old_data[i]" over a
\* fresh list of total_cells None
CopyOld(old_data, total_cells) ==
    LET min_cells == Min(Len(old_data), total_cells)
    IN  [i \in 1..total_cells |->
            IF Len(old_data) > 0 /\ i <= min_cells THEN old_data[i] ELSE None]

\* Variant of update_grid_size: the cursor is not pulled back
update_grid_size_NoClamp(width, height, data, index) ==
    LET cols == FitCount(width, width, height)
        rows == FitCount(height, width, height)
        total_cells == cols * rows
    IN  [grid_cols |-> cols, grid_rows |-> rows,
         grid_data |-> IF Len(data) # total_cells
                       THEN CopyOld(data, total_cells) ELSE data,
         grid_index |-> index]

\* update_grid_size() on (screen_width, screen_height, grid_data, grid_index)
update_grid_size(width, height, data, index) ==
    LET cols == FitCount(width, width, height)
        rows == FitCount(height, width, height)
        total_cells == cols * rows
    IN  IF Len(data) # total_cells
        THEN [grid_cols |-> cols, grid_rows |-> rows,
              grid_data |-> CopyOld(data, total_cells),
              grid_index |-> IF index >= total_cells THEN total_cells ELSE index]
        ELSE [grid_cols |-> cols, grid_rows |-> rows,
              grid_data |-> data, grid_index |-> index]

\* Variant of ShiftLoop: the loop runs over range(total_cells - 2)
ShiftLoopShort(data, total_cells) ==
    [i \in 1..Len(data) |->
        IF i <= total_cells - 2 THEN data[i + 1] ELSE data[i]]

\* The loop "for i in range(total_cells - 1): grid_data[i] = grid_data[i + 1]".
\* It runs i upward, so iteration i reads cell i + 1 before any iteration has
\* written it: every cell but the last takes the old value of its right
\* neighbour, and the last cell is not touched.
ShiftLoop(data, total_cells) ==
    [i \in 1..Len(data) |->
        IF i <= total_cells - 1 THEN data[i + 1] ELSE data[i]]

\* Variant of GridWrite: the cursor is not moved after an append
GridWriteStuck(data, index, cols, rows, rgb_value) ==
    LET total_cells == cols * rows
    IN  IF index >= total_cells
        THEN [grid_data |-> [ShiftLoop(data, total_cells)
                                EXCEPT ![total_cells] = rgb_value],
              grid_index |-> index]
        ELSE [grid_data |-> [data EXCEPT ![index + 1] = rgb_value],
              grid_index |-> index]

\* The grid write of update_grid (lines 211-221) for the colour rgb_value
GridWrite(data, index, cols, rows, rgb_value) ==
    LET total_cells == cols * rows
    IN  IF index >= total_cells
        THEN [grid_data |-> [ShiftLoop(data, total_cells)
                                EXCEPT ![total_cells] = rgb_value],
              grid_index |-> index]
        ELSE [grid_data |-> [data EXCEPT ![index + 1] = rgb_value],
              grid_index |-> index + 1]

\* update_grid(): draw a colour, play its note, write the grid. The write is
\* reached only if play_midi_note returns.
update_grid(data, index, cols, rows, cs, pl, s, id, outcome) ==
    LET gen == generate_random_rgb(s)
        rgb_value == gen.rgb
        hex_color == rgb_to_hex(rgb_value[1], rgb_value[2], rgb_value[3])
        midi_note == color_to_midi_note(hex_color, rgb_value)
        tone == play_midi_note(cs, pl, midi_note, id, outcome)
        w == GridWrite(data, index, cols, rows, rgb_value)
    IN  [rgb |-> rgb_value, note |-> midi_note, rng |-> gen.rng,
         current_sound |-> tone.current_sound, playing |-> tone.playing,
         raised |-> tone.raised,
         grid_data |-> IF tone.raised THEN data ELSE w.grid_data,
         grid_index |-> IF tone.raised THEN index ELSE w.grid_index]

-----------------------------------------------------------------------------
(* ToneSynthesizer: generate_tone *)

\* Variant of ToneFrames: the product is rounded to the nearest integer,
\* round(duration * sample_rate)
ToneFramesRounded(duration_ms, sample_rate) ==
    ((2 * duration_ms * sample_rate) + MsPerSecond) \div (2 * MsPerSecond)

\* The double duration * sample_rate falls below the whole number of frames
\* that duration_ms * sample_rate / 1000 is exactly. The duration is the
\* double nearest to duration_ms / 1000: with e its binary exponent,
\* duration_ms * 2^(52 - e) = 1000 * F + r and the double is F (r < 500, too
\* small by r / 1000 of its last bit) or F + 1. The product with the integer
\* sample_rate is rounded once more; when the duration is too small it is
\* the double just below the whole number if it lies below the middle.
ProductFallsShort(duration_ms, sample_rate) ==
    LET product == duration_ms * sample_rate
        e == Log2Floor(duration_ms, MsPerSecond)
        r == ((duration_ms % MsPerSecond) * Pow2Mod(52 - e, MsPerSecond))
                 % MsPerSecond
    IN  /\ duration_ms > 0
        /\ sample_rate > 0
        /\ product % MsPerSecond = 0
        /\ r # 0
        /\ 2 * r < MsPerSecond
        /\ RoundsBelow(product \div MsPerSecond, r, e, duration_ms)

\* frames = int(duration * sample_rate). The duration is a float number of
\* seconds in the source; the model counts it in whole milliseconds
\* (duration = duration_ms / 1000). int() truncates the double product:
\* that is the exact product truncated, or one less when the exact product
\* is a whole number and the double falls short of it (0.29 * 100 is
\* 28.999999999999996: 28 frames)
ToneFrames(duration_ms, sample_rate) ==
    IF ProductFallsShort(duration_ms, sample_rate)
    THEN TruncDiv(duration_ms * sample_rate, MsPerSecond) - 1
    ELSE TruncDiv(duration_ms * sample_rate, MsPerSecond)

\* The envelope of frame i, as the numerator of a fraction over sample_rate.
\* The source compares i with sample_rate * 0.01 and divides by it:
\*   i < sample_rate * 0.01           envelope = i / (sample_rate * 0.01)
\*   i > frames - sample_rate * 0.01  envelope = (frames - i) / (sample_rate * 0.01)
\*   otherwise                        envelope = 1.0
\* and the second test is an elif: it is made only when the first fails.
\* Multiplied through by 100 / sample_rate these are the comparisons below.
EnvelopeNum(i, frames, sample_rate) ==
    IF FadePerSecond * i < sample_rate
    THEN FadePerSecond * i
    ELSE IF FadePerSecond * i > (FadePerSecond * frames) - sample_rate
         THEN FadePerSecond * (frames - i)
         ELSE sample_rate

\* generate_tone(frequency, duration, sample_rate): the buffer it fills, as
\* its number of frames and the envelope applied to each frame i of
\* range(frames). The sine of the frequency is scaled by the envelope and by
\* 0.3 and does not change the buffer's length or its envelope.
generate_tone(duration_ms, sample_rate) ==
    LET frames == ToneFrames(duration_ms, sample_rate)
    IN  [frames |-> frames,
         envelope |-> [i \in 0..(frames - 1) |->
                          EnvelopeNum(i, frames, sample_rate)]]

-----------------------------------------------------------------------------
(* Inputs *)

\* Display sizes: two small screens (10 x 10 and 11 x 10 cells) and the
\* (-1, -1) that pygame.display.Info() reports when the size is unknown
ScreenSizes == { << 218, 218 >>, << 240, 218 >>, << -1, -1 >> }

\* Clock value at the first loop iteration (time spent constructing)
StartTimes == { 0, 140 }

\* Time from one clock sample to the next: a frame at the 60 fps cap, and
\* frames that took one and two update intervals
FramePeriods == { FrameCap, 500, 1000 }

\* Events pygame.event.get() can return
Event(type, key) == [type |-> type, key |-> key]
Events ==
    { Event("QUIT", "none"), Event("KEYDOWN", "K_ESCAPE"),
      Event("KEYDOWN", "K_SPACE"), Event("MOUSEBUTTONDOWN", "none"),
      Event("MOUSEMOTION", "none") }

EventBatches == UNION { [1..n -> Events] : n \in 0..MaxEvents }

\* Where a frame can raise: nowhere, in pygame.event.get(), inside
\* update_grid (an interrupt while the tone is generated), in draw_grid
Faults == { "none", "events", "update", "draw" }

\* Value of advanced_at while the loop has made no update_grid call yet
NoClock == -1

\* Shape of probe: the method called, its arguments, whether it has returned,
\* and the value returned
Probe(fn, arg, done, out) == [fn |-> fn, arg |-> arg, done |-> done, out |-> out]

\* The value of probe in Spec and SpecRun, which call no pure method on its own
NoProbe == Probe("none", << >>, FALSE, << >>)

\* Shape of the ghost record last_op: the operation, the colour it drew, what
\* became of its tone, whether it stopped a sound that was audible, whether the
\* update was due, the fault raised, and the capacity and cursor it found
Op(op, rgb, tone, stopped, due, fault, cap, index) ==
    [op |-> op, rgb |-> rgb, tone |-> tone, stopped |-> stopped, due |-> due,
     fault |-> fault, cap |-> cap, index |-> index]

-----------------------------------------------------------------------------
(* Construction *)

\* One call of update_grid() on the fields it touches, its tone played and
\* ended before the next call; k is the number of calls made before it
FillStep(fill, k) ==
    LET u == update_grid(fill.grid_data, fill.grid_index, fill.grid_cols,
                         fill.grid_rows, fill.current_sound, {}, fill.rng,
                         k + 1, "ok")
    IN  [fill EXCEPT !.grid_data = u.grid_data,
                     !.grid_index = u.grid_index,
                     !.current_sound = u.current_sound,
                     !.rng = u.rng,
                     !.history = Append(fill.history, u.rgb)]

\* n successive calls of update_grid(), the first being call number k + 1
\* (split in halves, the first half evaluated before the second is begun,
\* to keep the evaluation shallow)
RECURSIVE Filled(_, _, _)
Filled(fill, k, n) ==
    IF n <= 0
    THEN fill
    ELSE IF n = 1
         THEN FillStep(fill, k)
         ELSE LET half == Filled(fill, k, n \div 2)
              IN  IF half.grid_index >= 0
                  THEN Filled(half, k + (n \div 2), n - (n \div 2))
                  ELSE half

\* __init__: the fields as assigned, then update_grid_size() on the empty
\* grid, then last_update = 0; followed by n calls of update_grid()
Constructed(size, seed, start, n) ==
    LET g == update_grid_size(size[1], size[2], << >>, 0)
        f == Filled([grid_data |-> g.grid_data, grid_index |-> g.grid_index,
                     grid_cols |-> g.grid_cols, grid_rows |-> g.grid_rows,
                     current_sound |-> None, rng |-> seed, history |-> << >>],
                    0, n)
    IN  /\ screen_width = size[1]
        /\ screen_height = size[2]
        /\ grid_cols = g.grid_cols
        /\ grid_rows = g.grid_rows
        /\ grid_data = f.grid_data
        /\ grid_index = f.grid_index
        /\ current_sound = f.current_sound
        /\ playing = {}
        /\ rng = f.rng
        /\ now = start
        /\ last_update = 0
        /\ running = TRUE
        /\ pc = "loop"
        /\ quit_called = FALSE
        /\ history = f.history
        /\ n_advances = 0
        /\ n_resizes = 0
        /\ iterations = 0
        /\ delivered = {}
        /\ late_frame = FALSE
        /\ last_op = Op("init", None, "none", FALSE, FALSE, "none", 0, 0)
        /\ advanced_at = NoClock

\* The capacity update_grid_size() gives a display of that size
Capacity(size) ==
    FitCount(size[1], size[1], size[2]) * FitCount(size[2], size[1], size[2])

\* Spec starts from the object as constructed, and from the same object once
\* update_grid() has filled all but FillGap cells of it
Init ==
    \E size \in ScreenSizes, seed \in 0..MaxSeed :
        \E n \in { 0, Capacity(size) - FillGap } :
            Constructed(size, seed, 0, n) /\ probe = NoProbe

\* main(): the object as constructed, run() entered; and the same with the
\* grid one cell short of full, as run() has it after that many updates
RunScreen == << 218, 218 >>

InitRun ==
    \E start \in StartTimes, n \in { 0, Capacity(RunScreen) - 1 } :
        Constructed(RunScreen, 0, start, n) /\ probe = NoProbe

-----------------------------------------------------------------------------
(* Spec: the methods of the constructed object *)

\* A call of update_grid() that returns
Advance(outcome) ==
    LET u == update_grid(grid_data, grid_index, grid_cols, grid_rows,
                         current_sound, playing, rng, Len(history) + 1, outcome)
    IN  /\ n_advances < MaxAdvances
        /\ n_advances' = n_advances + 1
        /\ grid_data' = u.grid_data
        /\ grid_index' = u.grid_index
        /\ current_sound' = u.current_sound
        /\ playing' = u.playing
        /\ rng' = u.rng
        /\ history' = IF u.raised THEN history ELSE Append(history, u.rgb)
        /\ last_op' = Op("advance", u.rgb, outcome, current_sound \in playing, FALSE,
                         IF u.raised THEN "update" ELSE "none",
                         grid_cols * grid_rows, grid_index)
        /\ UNCHANGED << screen_width, screen_height, grid_cols, grid_rows, now,
                        last_update, running, pc, quit_called, n_resizes,
                        iterations, delivered, late_frame, advanced_at,
                        probe >>

\* The display takes the size (width, height) and update_grid_size() is called
Resize(width, height) ==
    LET g == update_grid_size(width, height, grid_data, grid_index)
    IN  /\ n_resizes < MaxResizes
        /\ screen_width' = width
        /\ screen_height' = height
        /\ grid_cols' = g.grid_cols
        /\ grid_rows' = g.grid_rows
        /\ grid_data' = g.grid_data
        /\ grid_index' = g.grid_index
        /\ n_resizes' = n_resizes + 1
        /\ last_op' = Op("resize", None, "none", FALSE, FALSE, "none",
                         grid_cols * grid_rows, grid_index)
        /\ UNCHANGED << current_sound, playing, rng, now, last_update, running,
                        pc, quit_called, history, n_advances, iterations,
                        delivered, late_frame, advanced_at, probe >>

\* The audio sink reaches the end of the tone it plays (0.2 s after its start)
ToneEnds ==
    /\ playing # {}
    /\ pc = "loop"
    /\ playing' = {}
    /\ UNCHANGED << screen_width, screen_height, grid_cols, grid_rows,
                    grid_data, grid_index, current_sound, rng, now, last_update,
                    running, pc, quit_called, history, n_advances, n_resizes,
                    iterations, delivered, late_frame, last_op, advanced_at,
                    probe >>

Next ==
    \/ \E outcome \in ToneOutcomes : Advance(outcome)
    \/ \E size \in ScreenSizes : Resize(size[1], size[2])
    \/ ToneEnds

Spec == Init /\ [][Next]_vars

-----------------------------------------------------------------------------
(* SpecRun: main() and the loop of run() *)

\* Variant of HandleEvents: a pointer press is not looked at
RECURSIVE HandleEventsNoMouse(_, _)
HandleEventsNoMouse(evs, run) ==
    IF evs = << >>
    THEN run
    ELSE LET event == Head(evs)
             run1 == IF event.type = "QUIT"
                     THEN FALSE
                     ELSE IF event.type = "KEYDOWN"
                          THEN (IF event.key = "K_ESCAPE" THEN FALSE ELSE run)
                          ELSE run
         IN  HandleEventsNoMouse(Tail(evs), run1)

\* The loop over pygame.event.get(): the value of running after the batch
RECURSIVE HandleEvents(_, _)
HandleEvents(evs, run) ==
    IF evs = << >>
    THEN run
    ELSE LET event == Head(evs)
             run1 == IF event.type = "QUIT"
                     THEN FALSE
                     ELSE IF event.type = "KEYDOWN"
                          THEN (IF event.key = "K_ESCAPE" THEN FALSE ELSE run)
                          ELSE IF event.type = "MOUSEBUTTONDOWN"
                               THEN FALSE
                               ELSE run
         IN  HandleEvents(Tail(evs), run1)

\* Variant of UpdateDue: last_update is not subtracted from the clock
UpdateDueNoLast(current_time, last) == current_time >= update_interval

\* "current_time - self.last_update >= self.update_interval"
UpdateDue(current_time, last) == current_time - last >= update_interval

\* The audio backend has a say only in an iteration that plays a tone
ToneChoices(due) == IF due THEN ToneOutcomes ELSE { "none" }

\* Variant of NextLastUpdate: the schedule advances by one interval
NextLastUpdateFixed(current_time, last) == last + update_interval

\* The value assigned to self.last_update after update_grid() returned
NextLastUpdate(current_time, last) == current_time

\* The input events of a batch: those of the three types the loop looks at
InputEvents(evs) ==
    { evs[i] : i \in { j \in 1..Len(evs) :
                         evs[j].type \in { "QUIT", "KEYDOWN", "MOUSEBUTTONDOWN" } } }

\* One iteration of the while loop: sample the clock, handle the events,
\* update the grid when due, draw, clock.tick(60). A fault ends the iteration
\* where it is raised and leaves run() with the exception.
Tick(dt, evs, fault, outcome) ==
    LET current_time == now
        due == UpdateDue(current_time, last_update)
        run1 == IF fault = "events" THEN running ELSE HandleEvents(evs, running)
        call == fault # "events" /\ due
        u == update_grid(grid_data, grid_index, grid_cols, grid_rows,
                         current_sound, playing, rng, Len(history) + 1,
                         IF fault = "update" THEN Interrupt ELSE outcome)
        wrote == call /\ ~u.raised
        crashed == fault = "events" \/ (call /\ u.raised) \/ fault = "draw"
    IN  /\ pc = "loop"
        /\ running
        /\ now <= MaxTime
        /\ fault = "update" => due
        /\ fault = "events" => (evs = << >> /\ dt = FrameCap)
        /\ outcome \in ToneChoices(due)
        /\ iterations' = iterations + 1
        /\ delivered' = IF fault = "events" THEN delivered
                        ELSE delivered \cup InputEvents(evs)
        /\ running' = run1
        /\ grid_data' = IF call THEN u.grid_data ELSE grid_data
        /\ grid_index' = IF call THEN u.grid_index ELSE grid_index
        /\ current_sound' = IF call THEN u.current_sound ELSE current_sound
        /\ playing' = IF call THEN u.playing ELSE playing
        /\ rng' = IF call THEN u.rng ELSE rng
        /\ history' = IF wrote THEN Append(history, u.rgb) ELSE history
        /\ n_advances' = IF call THEN n_advances + 1 ELSE n_advances
        /\ last_update' = IF wrote
                          THEN NextLastUpdate(current_time, last_update)
                          ELSE last_update
        /\ pc' = IF crashed THEN "crashed" ELSE "loop"
        /\ now' = IF crashed THEN now ELSE now + dt
        /\ late_frame' = (late_frame \/ (~crashed /\ dt > update_interval))
        /\ last_op' = Op("tick", IF call THEN u.rgb ELSE None,
                         IF call THEN (IF fault = "update" THEN Interrupt
                                       ELSE outcome)
                         ELSE "none",
                         call /\ current_sound \in playing, due, fault,
                         grid_cols * grid_rows, grid_index)
        /\ advanced_at' = IF call THEN current_time ELSE advanced_at
        /\ UNCHANGED << screen_width, screen_height, grid_cols, grid_rows,
                        quit_called, n_resizes, probe >>

\* The loop condition fails: run() executes pygame.quit() and returns
Exit ==
    /\ pc = "loop"
    /\ ~running
    /\ pc' = "done"
    /\ quit_called' = TRUE
    /\ playing' = {}
    /\ UNCHANGED << screen_width, screen_height, grid_cols, grid_rows,
                    grid_data, grid_index, current_sound, rng, now, last_update,
                    running, history, n_advances, n_resizes, iterations,
                    delivered, late_frame, last_op, advanced_at, probe >>

NextRun ==
    \/ \E dt \in FramePeriods, evs \in EventBatches, fault \in Faults,
          outcome \in ToneOutcomes \cup { "none" } : Tick(dt, evs, fault, outcome)
    \/ ToneEnds
    \/ Exit

SpecRun == InitRun /\ [][NextRun]_vars

-----------------------------------------------------------------------------
(* SpecPure: the pure methods, each called once on drawn arguments *)

\* Display widths and heights, negative and zero among them
PixelSamples == { p * PixelStep : p \in (-MaxPixelK)..MaxPixelK }

\* Displays larger than the samples: SVGA, full HD, and two whose column
\* count the floating-point division leaves one short (29 and 59)
LargeScreens ==
    { << 800, 600 >>, << 1920, 1080 >>, << 659, 601 >>, << 1320, 601 >> }

\* Channel values: the ones the static colours are made of and every
\* ChannelStep-th value of 0..255
ChannelSamples ==
    { Channels[i] : i \in 1..Len(Channels) }
        \cup { c \in 0..ChannelMax : c % ChannelStep = 0 }

\* Tone durations in ms, 0.29 s among them, whose product with 100 Hz is the
\* double 28.999999999999996; and sample rates in Hz
DurationSamples == (0..MaxDurationMs) \cup { DefaultDurationMs, 290 }
SampleRates == { 100, 1000, 8000, DefaultSampleRate }

\* The calls made: probe before the method has run
PureCalls ==
    { Probe("update_grid_size", << w, h >>, FALSE, << >>) :
          w \in PixelSamples, h \in PixelSamples }
      \cup { Probe("update_grid_size", size, FALSE, << >>) : size \in LargeScreens }
      \cup { Probe("color_to_midi_note", << r, g, b >>, FALSE, << >>) :
                r \in ChannelSamples, g \in ChannelSamples, b \in ChannelSamples }
      \cup { Probe("channel_notes", << c >>, FALSE, << >>) : c \in 0..ChannelMax }
      \cup { Probe("avg_note", << r, g, b >>, FALSE, << >>) :
                r \in ChannelSamples, g \in ChannelSamples, b \in ChannelSamples }
      \cup { Probe("generate_tone", << d, sr >>, FALSE, << >>) :
                d \in DurationSamples, sr \in SampleRates }

\* The object is constructed and one call is about to be made
InitPure ==
    /\ Constructed(RunScreen, 0, 0, 0)
    /\ probe \in PureCalls

\* The variables of the object, which no pure call changes
object == << screen_width, screen_height, grid_cols, grid_rows, grid_data,
             grid_index, current_sound, playing, rng, now, last_update,
             running, pc, quit_called, history, n_advances, n_resizes,
             iterations, delivered, late_frame, last_op, advanced_at >>

\* update_grid_size() on a new object whose display has the size drawn: the
\* columns, the rows and the number of cells allocated
CallUpdateGridSize ==
    /\ probe.fn = "update_grid_size"
    /\ ~probe.done
    /\ LET g == update_grid_size(probe.arg[1], probe.arg[2], << >>, 0)
       IN  probe' = Probe(probe.fn, probe.arg, TRUE,
                          [grid_cols |-> g.grid_cols, grid_rows |-> g.grid_rows,
                           total_cells |-> Len(g.grid_data)])
    /\ UNCHANGED object

\* color_to_midi_note(hex_color=hex_color, rgb=rgb_value) as update_grid calls
\* it, hex_color being rgb_to_hex(*rgb_value)
CallColorToMidiNote ==
    /\ probe.fn = "color_to_midi_note"
    /\ ~probe.done
    /\ LET rgb_value == probe.arg
           hex_color == rgb_to_hex(rgb_value[1], rgb_value[2], rgb_value[3])
       IN  probe' = Probe(probe.fn, probe.arg, TRUE,
                          [hex_color |-> hex_color,
                           note |-> color_to_midi_note(hex_color, rgb_value)])
    /\ UNCHANGED object

\* The three partial notes color_to_midi_note computes from one channel value
CallChannelNotes ==
    /\ probe.fn = "channel_notes"
    /\ ~probe.done
    /\ probe' = Probe(probe.fn, probe.arg, TRUE,
                      [red_note |-> ChannelNote(RedBase, probe.arg[1]),
                       green_note |-> ChannelNote(GreenBase, probe.arg[1]),
                       blue_note |-> ChannelNote(BlueBase, probe.arg[1])])
    /\ UNCHANGED object

\* The rgb branch of color_to_midi_note up to line 92: the mean of the three
\* partial notes as a sum over a count, and avg_note, its rounded value
CallAvgNote ==
    /\ probe.fn = "avg_note"
    /\ ~probe.done
    /\ probe' = Probe(probe.fn, probe.arg, TRUE,
                      [total |-> NoteMean(probe.arg).total,
                       count |-> NoteMean(probe.arg).count,
                       avg_note |-> avg_note(probe.arg)])
    /\ UNCHANGED object

\* generate_tone(frequency, duration, sample_rate)
CallGenerateTone ==
    /\ probe.fn = "generate_tone"
    /\ ~probe.done
    /\ probe' = Probe(probe.fn, probe.arg, TRUE,
                      generate_tone(probe.arg[1], probe.arg[2]))
    /\ UNCHANGED object

NextPure ==
    \/ CallUpdateGridSize
    \/ CallColorToMidiNote
    \/ CallChannelNotes
    \/ CallAvgNote
    \/ CallGenerateTone

SpecPure == InitPure /\ [][NextPure]_vars

-----------------------------------------------------------------------------
(* Steps, as seen from a pair of states *)

\* This step is a call of update_grid()
IsAdvance == n_advances' = n_advances + 1

\* This step is a call of update_grid_size()
IsResize == n_resizes' = n_resizes + 1

\* This step is an iteration of the loop of run()
IsTick == iterations' = iterations + 1

TotalCells == grid_cols * grid_rows

-----------------------------------------------------------------------------
(* C1 *)

\* C1: whenever update_grid runs on a full grid (grid_index = N), every new
\* cell i < N - 1 holds the old cell i + 1, the new last cell holds the colour
\* just generated, and grid_index stays N.
C1_EvictionShift ==
    [][ (IsAdvance /\ last_op'.fault = "none" /\ grid_index = TotalCells) =>
          /\ Len(grid_data') = TotalCells
          /\ \A i \in 1..(TotalCells - 1) : grid_data'[i] = grid_data[i + 1]
          /\ grid_data'[TotalCells] = generate_random_rgb(rng).rgb
          /\ grid_index' = TotalCells ]_vars

\* An update has just evicted a cell from a full grid of differing colours
C1_Witness ==
    /\ last_op.op = "advance"
    /\ last_op.index = last_op.cap
    /\ grid_index = TotalCells
    /\ grid_data[TotalCells] = last_op.rgb
    /\ grid_data[TotalCells - 1] # grid_data[TotalCells]
    /\ grid_data[1] # grid_data[2]

-----------------------------------------------------------------------------
(* C2 *)

\* C2: after any sequence of update_grid_size and update_grid calls,
\* len(grid_data) = grid_cols * grid_rows and 0 <= grid_index <= that.
C2_CapacityInvariant ==
    /\ Len(grid_data) = grid_cols * grid_rows
    /\ 0 <= grid_index
    /\ grid_index <= grid_cols * grid_rows

\* After a resize, an update has run on a full grid that holds fewer cells
\* than colours were written
C2_Witness ==
    /\ n_resizes >= 1
    /\ last_op.op = "advance"
    /\ last_op.cap < Len(history)
    /\ grid_index = TotalCells

-----------------------------------------------------------------------------
(* C3 *)

\* C3: when update_grid_size changes the capacity from A to B, the cells
\* below min(A, B) keep their values and places, the cells from A on (B > A)
\* are empty, the grid has B cells, and grid_index becomes min(grid_index, B).
C3_ResizePreservation ==
    [][ (IsResize /\ Len(grid_data') # Len(grid_data)) =>
          LET A == Len(grid_data)
              B == grid_cols' * grid_rows'
          IN  /\ Len(grid_data') = B
              /\ \A i \in 1..Min(A, B) : grid_data'[i] = grid_data[i]
              /\ \A i \in (A + 1)..B : grid_data'[i] = None
              /\ grid_index' = Min(grid_index, B) ]_vars

\* A resize has just shrunk the grid and pulled the cursor back
C3_Witness ==
    /\ last_op.op = "resize"
    /\ last_op.cap > TotalCells
    /\ last_op.index > TotalCells
    /\ grid_index = TotalCells
    /\ grid_data[TotalCells] # None

-----------------------------------------------------------------------------
(* C4 *)

\* C4: with no resize, after k updates that wrote the colours c1..ck the grid
\* holds the last min(k, N) of them in order from index 0, every later cell
\* is empty, and grid_index = min(k, N).
C4_FifoHistory ==
    n_resizes = 0 =>
        LET k == Len(history)
            m == Min(k, TotalCells)
        IN  /\ \A i \in 1..m : grid_data[i] = history[(k - m) + i]
            /\ \A i \in (m + 1)..TotalCells : grid_data[i] = None
            /\ grid_index = m

\* More colours were written than the grid holds, and the first is gone
C4_Witness ==
    /\ n_resizes = 0
    /\ last_op.op = "advance"
    /\ Len(history) >= TotalCells + 2
    /\ grid_data[1] = history[(Len(history) - TotalCells) + 1]
    /\ grid_data[1] # history[1]

-----------------------------------------------------------------------------
(* C5 *)

\* C5: on a loop iteration with clock sample t that raises nothing before
\* line 314, update_grid is invoked if and only if t - last_update >= 500, and
\* on exactly those iterations last_update is set to t.
C5_TriggerRule ==
    [][ (IsTick /\ last_op'.fault \in { "none", "draw" }) =>
          /\ (n_advances' = n_advances + 1) <=> (now - last_update >= 500)
          /\ n_advances' \in { n_advances, n_advances + 1 }
          /\ (now - last_update >= 500) => last_update' = now
          /\ (now - last_update < 500) => last_update' = last_update ]_vars

\* An iteration has just updated the grid at a clock value that is no
\* multiple of the interval, and last_update holds that value
C5_Witness ==
    /\ last_op.op = "tick"
    /\ last_op.due
    /\ last_op.fault = "none"
    /\ n_advances = 2
    /\ last_update > 2 * update_interval
    /\ last_update % update_interval # 0
    /\ pc = "loop"

-----------------------------------------------------------------------------
(* C6 *)

\* C6: the fill rate does not depend on the frame period: as long as no frame
\* period was longer than the interval, an iteration with clock sample t
\* leaves exactly t div 500 updates performed (one per 500 ms of elapsed time).
C6_FrameRateIndependent ==
    [][ (IsTick /\ ~late_frame /\ last_op'.fault = "none") =>
          n_advances' = now \div update_interval ]_vars

-----------------------------------------------------------------------------
(* C7 *)

\* C7: at most one sound started by play_midi_note is audible, and it is the
\* one current_sound refers to.
C7_AtMostOneTone ==
    /\ Cardinality(playing) <= 1
    /\ playing \subseteq { current_sound }

\* A call has just stopped the audible sound and started the next one
C7_Witness ==
    /\ last_op.op = "advance"
    /\ last_op.stopped
    /\ last_op.tone = "ok"
    /\ playing = { current_sound }
    /\ current_sound.id = Len(history)

-----------------------------------------------------------------------------
(* C8 *)

QuitEvent(e) == e.type = "QUIT"
KeyEvent(e) == e.type = "KEYDOWN"
EscapeEvent(e) == e.type = "KEYDOWN" /\ e.key = "K_ESCAPE"
PointerEvent(e) == e.type = "MOUSEBUTTONDOWN"

\* C8 as stated: once a quit, a key press (any key) or a pointer press has
\* been delivered to an iteration, the loop starts no further iteration.
C8_AnyKeyTerminates ==
    [][ (\E e \in delivered : QuitEvent(e) \/ KeyEvent(e) \/ PointerEvent(e))
          => iterations' = iterations ]_vars

\* C8 as amended: once a quit, a press of the Escape key or a pointer press
\* has been delivered to an iteration, the loop starts no further iteration.
C8_ExitEventTerminates ==
    [][ (\E e \in delivered : QuitEvent(e) \/ EscapeEvent(e) \/ PointerEvent(e))
          => iterations' = iterations ]_vars

\* run() has returned after an Escape press that followed another key press
C8_Witness ==
    /\ pc = "done"
    /\ Event("KEYDOWN", "K_ESCAPE") \in delivered
    /\ Event("KEYDOWN", "K_SPACE") \in delivered
    /\ iterations >= 2

-----------------------------------------------------------------------------
(* C9 *)

\* C9: on every way out of run(), an exception raised in mid-frame included,
\* pygame.quit() has been executed.
C9_CleanupOnEveryExit == pc \in { "done", "crashed" } => quit_called

-----------------------------------------------------------------------------
(* C10 *)

\* C10: when tone generation or playback fails during an update, nothing is
\* raised out of update_grid, the grid is written as with a tone that played
\* (an append below capacity, the shift at capacity), and the loop goes on.
C10_ToneFaultIsolated ==
    [][ (IsTick /\ IsAdvance /\ last_op'.tone \in { "synth_error", "play_error" }) =>
          LET rgb == generate_random_rgb(rng).rgb
          IN  /\ last_op'.fault # "update"
              /\ grid_data' = IF grid_index >= TotalCells
                              THEN Tail(grid_data) \o << rgb >>
                              ELSE [i \in 1..TotalCells |->
                                      IF i = grid_index + 1 THEN rgb
                                      ELSE grid_data[i]]
              /\ grid_index' = Min(grid_index + 1, TotalCells)
              /\ last_update' = now
              /\ last_op'.fault = "none" => pc' = "loop" ]_vars

\* The loop is running after an update on a full grid whose playback failed
C10_Witness ==
    /\ last_op.op = "tick"
    /\ last_op.tone = "play_error"
    /\ last_op.index = last_op.cap
    /\ grid_data[TotalCells] = last_op.rgb
    /\ current_sound = None
    /\ pc = "loop"

-----------------------------------------------------------------------------
(* C11 *)

\* C11: whatever the pixel width and height of the display, zero and negative
\* values included, update_grid_size leaves grid_cols >= 10 and grid_rows >= 10,
\* so that the capacity is at least 100 and never zero.
C11_MinimumGrid ==
    (probe.fn = "update_grid_size" /\ probe.done) =>
        /\ probe.out.grid_cols >= 10
        /\ probe.out.grid_rows >= 10
        /\ probe.out.total_cells >= 100
        /\ probe.out.total_cells = probe.out.grid_cols * probe.out.grid_rows

\* update_grid_size has sized the grid of a display of negative width and
\* zero height
C11_Witness ==
    /\ probe.fn = "update_grid_size"
    /\ probe.done
    /\ probe.arg[1] < -gap
    /\ probe.arg[2] = 0
    /\ probe.out.grid_cols = 10
    /\ probe.out.grid_rows = 10

-----------------------------------------------------------------------------
(* C12 *)

\* C12: for every RGB triple with channels in 0..255, color_to_midi_note,
\* called as update_grid calls it (the triple and its hex string), returns an
\* integer in [36, 96].
C12_NoteInRange ==
    (probe.fn = "color_to_midi_note" /\ probe.done) =>
        /\ probe.out.note \in Int
        /\ probe.out.note >= 36
        /\ probe.out.note <= 96

\* The note of the brightest colour that is not a static one has been
\* computed: it is 60, the highest the formula yields
C12_Witness ==
    /\ probe.fn = "color_to_midi_note"
    /\ probe.done
    /\ probe.arg = << 255, 255, 240 >>
    /\ probe.out.note = 60

-----------------------------------------------------------------------------
(* C13 *)

\* C13: the static colours bypass the formula: the note is 36 for (0, 0, 0),
\* 38 for (10, 10, 10), 40 for (26, 26, 26) and 60 for (255, 255, 255); for
\* every other triple it is the mean of the three channel notes, rounded to
\* the nearest integer and clamped to [36, 96].
C13_ReservedNotes ==
    (probe.fn = "color_to_midi_note" /\ probe.done) =>
        LET rgb == probe.arg
            note == probe.out.note
            total == (36 + ((12 * rgb[1]) \div 255))
                       + (48 + ((12 * rgb[2]) \div 255))
                       + (60 + ((12 * rgb[3]) \div 255))
            Near(n) == (2 * ((3 * n) - total) <= 3) /\ (2 * (total - (3 * n)) <= 3)
            Clamp(n) == IF n < 36 THEN 36 ELSE IF n > 96 THEN 96 ELSE n
        IN  CASE rgb = << 0, 0, 0 >> -> note = 36
              [] rgb = << 10, 10, 10 >> -> note = 38
              [] rgb = << 26, 26, 26 >> -> note = 40
              [] rgb = << 255, 255, 255 >> -> note = 60
              [] OTHER -> \E n \in 0..255 : Near(n) /\ note = Clamp(n)

\* Black has been mapped: it got its static note 36 where the formula gives
\* 48; or the static grey (10, 10, 10) its note 38, also 48 by the formula
C13_Witness ==
    /\ probe.fn = "color_to_midi_note"
    /\ probe.done
    /\ \/ probe.arg = << 0, 0, 0 >> /\ probe.out.note = 36
       \/ probe.arg = << 10, 10, 10 >> /\ probe.out.note = 38

-----------------------------------------------------------------------------
(* C16 *)

\* C16: for every channel value c in 0..255 the offset floor(c / 255 * 12) is
\* in [0, 12), so the red, green and blue partial notes stay inside the bands
\* 36..47, 48..59 and 60..71.
C16_BandsHalfOpen ==
    (probe.fn = "channel_notes" /\ probe.done) =>
        /\ probe.out.red_note \in 36..47
        /\ probe.out.green_note \in 48..59
        /\ probe.out.blue_note \in 60..71
        /\ (probe.out.red_note - 36) \in 0..11

-----------------------------------------------------------------------------
(* C20 *)

\* C20: for every RGB triple the mean (red_note + green_note + blue_note) / 3
\* never has the fractional part one half, so rounding half away from zero
\* gives the note that Python's rounding half to even gives. The mean is the
\* sum and the count the code divides it by; avg_note is what the code's
\* round() made of it.
C20_RoundingRuleIndependent ==
    (probe.fn = "avg_note" /\ probe.done) =>
        LET total == probe.out.total
            count == probe.out.count
            HalfAway == IF 2 * (total % count) >= count
                        THEN (total \div count) + 1
                        ELSE total \div count
        IN  /\ 2 * (total % count) # count
            /\ probe.out.avg_note = HalfAway

\* The mean of (26, 26, 0) has been rounded: 37 + 49 + 60 = 146 over 3,
\* fractional part two thirds, avg_note 49
C20_Witness ==
    /\ probe.fn = "avg_note"
    /\ probe.done
    /\ probe.arg = << 26, 26, 0 >>
    /\ probe.out.total = 146
    /\ probe.out.count = 3
    /\ probe.out.total % probe.out.count = 2
    /\ probe.out.avg_note = 49

-----------------------------------------------------------------------------
(* C14 *)

\* C14 as claimed: for every duration d and sample rate r, generate_tone
\* produces exactly round(d * r) frames, the product rounded to the nearest
\* integer and not truncated (d is arg[1] / 1000 seconds).
C14_FramesRounded ==
    (probe.fn = "generate_tone" /\ probe.done) =>
        LET product == probe.arg[1] * probe.arg[2]
            frames == probe.out.frames
        IN  /\ 2 * ((1000 * frames) - product) <= 1000
            /\ 2 * (product - (1000 * frames)) <= 1000

\* C14, amended: for every duration d >= 0 and sample rate r, generate_tone
\* produces exactly int(d * r) frames, the double product truncated: never
\* more than d * r, and the whole number below d * r (d * r - 1 itself only
\* when d * r is a whole number that the double product falls short of).
C14_FramesTruncated ==
    (probe.fn = "generate_tone" /\ probe.done) =>
        LET product == probe.arg[1] * probe.arg[2]
            frames == probe.out.frames
        IN  /\ 1000 * frames <= product
            /\ product <= 1000 * (frames + 1)
            /\ product % 1000 # 0 => product < 1000 * (frames + 1)
            /\ DOMAIN probe.out.envelope = 0..(frames - 1)

\* A tone of 8 ms at 44100 Hz has been generated: 352.8 frames' worth of
\* time, 352 frames; or one of 0.29 s at 100 Hz: 28 frames
C14_Witness ==
    /\ probe.fn = "generate_tone"
    /\ probe.done
    /\ \/ probe.arg = << 8, 44100 >> /\ probe.out.frames = 352
       \/ probe.arg = << 290, 100 >> /\ probe.out.frames = 28

-----------------------------------------------------------------------------
(* C17 *)

\* C17: for every buffer length, the envelope of frame i is in [0, 1], does
\* not decrease over the first 0.01 * r frames, does not increase over the
\* last 0.01 * r frames, is exactly 1 in between, and never differs by more
\* than 1 / (0.01 * r) between adjacent frames, tones shorter than two fade
\* windows included. (The envelope is held as a numerator over r, so 1 is r
\* and 1 / (0.01 * r) is 100.)
C17_EnvelopeShape ==
    (probe.fn = "generate_tone" /\ probe.done) =>
        LET r == probe.arg[2]
            frames == probe.out.frames
            e == probe.out.envelope
            InFadeIn(i) == 100 * i < r
            InFadeOut(i) == 100 * i > (100 * frames) - r
        IN  /\ \A i \in 0..(frames - 1) : e[i] >= 0 /\ e[i] <= r
            /\ \A i \in 0..(frames - 2) :
                 /\ InFadeIn(i + 1) => e[i] <= e[i + 1]
                 /\ InFadeOut(i) => e[i] >= e[i + 1]
                 /\ e[i + 1] - e[i] <= 100
                 /\ e[i] - e[i + 1] <= 100
            /\ \A i \in 0..(frames - 1) :
                 (~InFadeIn(i) /\ ~InFadeOut(i)) => e[i] = r

-----------------------------------------------------------------------------
(* C15 *)

\* C15: a loop iteration whose clock sample t has t - last_update < 500 leaves
\* grid_data, grid_index, grid_cols, grid_rows, last_update and current_sound
\* unchanged and starts no tone.
C15_IdleTickNoOp ==
    [][ (IsTick /\ now - last_update < 500) =>
          /\ UNCHANGED << grid_data, grid_index, grid_cols, grid_rows,
                          last_update, current_sound >>
          /\ playing' \subseteq playing
          /\ history' = history ]_vars

\* An iteration has just run 16 ms after an update: the tone of that update
\* is still playing and the grid holds what the update left
C15_Witness ==
    /\ last_op.op = "tick"
    /\ ~last_op.due
    /\ last_op.fault = "none"
    /\ pc = "loop"
    /\ advanced_at # NoClock
    /\ now = advanced_at + (2 * FrameCap)
    /\ current_sound \in playing
    /\ grid_index >= 1

-----------------------------------------------------------------------------
(* C18 *)

\* C18: after any sequence of advances and capacity-changing resizes, every
\* cell at an index below grid_index holds a colour and every cell at an index
\* >= grid_index is empty (index j of the source is position j + 1 here).
C18_FilledPrefix ==
    /\ grid_index >= 0
    /\ grid_index <= Len(grid_data)
    /\ \A i \in 1..Len(grid_data) :
         IF i <= grid_index THEN grid_data[i] # None ELSE grid_data[i] = None

\* A resize has just changed the capacity of a grid that advances had partly
\* filled, and cells remain empty after the cursor
C18_Witness ==
    /\ last_op.op = "resize"
    /\ last_op.cap # TotalCells
    /\ n_advances >= 1
    /\ grid_index >= 1
    /\ grid_index < TotalCells
    /\ grid_data[grid_index] # None
    /\ grid_data[grid_index + 1] = None

-----------------------------------------------------------------------------
(* C19 *)

\* C19: one loop iteration makes at most one advance however many 500 ms
\* intervals have passed since last_update, and the clock samples of two
\* consecutive advances differ by at least 500 ms.
C19_NoCatchUp ==
    [][ IsTick =>
          /\ n_advances' <= n_advances + 1
          /\ Len(history') <= Len(history) + 1
          /\ grid_index' <= grid_index + 1
          /\ (IsAdvance /\ advanced_at # NoClock) => now - advanced_at >= 500 ]_vars

\* An iteration sampled the clock two intervals after last_update (a frame
\* took 1000 ms) and made a single advance, the first of the run
C19_Witness ==
    /\ last_op.op = "tick"
    /\ last_op.due
    /\ last_op.fault = "none"
    /\ late_frame
    /\ n_advances = 1
    /\ advanced_at >= 2 * update_interval
    /\ last_update = advanced_at

=============================================================================
